---- MODULE Spec2Model ----
(***************************************************************************)
(* Model of src/App.tsx: the App component of the voice translator.        *)
(*                                                                         *)
(* The component is a React function component.  Its state hooks (status,  *)
(* history, currentTurn) hold the values of the last committed render;     *)
(* every setState call appends an update to the hook's queue and the       *)
(* queues are applied by the next render (updates made outside a click     *)
(* handler are batched, a click handler's updates are rendered before the  *)
(* handler's event ends).  Callbacks created by a render (stopListening,   *)
(* the effect cleanup, the callbacks handed to live.connect) see the       *)
(* state values of the render that created them.  Refs are plain mutable   *)
(* cells.                                                                  *)
(*                                                                         *)
(* A nullable value is a sequence of length 0 (null) or 1.  A text is a    *)
(* sequence of characters, so that + is \o and '' is <<>>.                 *)
(***************************************************************************)
EXTENDS Integers, Sequences, FiniteSets, TLC

\* ---- bounds of the model
MaxSessions == 2      \* invocations of startListening (Spec)
MaxMsgs == 2          \* server messages delivered
MaxClock == 2         \* values Date.now() takes

Sessions == 1..(MaxSessions + 1)
Requests == 1..MaxMsgs
FragTexts == {<<>>, <<"a">>, <<"b">>}

NULL == <<>>
Some(x) == <<x>>

VARIABLES
  status,        \* useState 'idle' | 'connecting' | 'listening' | 'error'
  history,       \* useState TranscriptionTurn[]
  currentTurn,   \* useState TranscriptionTurn | null
  statusQ,       \* pending setStatus calls
  histQ,         \* pending setHistory calls
  turnQ,         \* pending setCurrentTurn calls
  micStreamRef,  \* 0 (null) or the session whose MediaStream it holds
  audioContextRef,
  processorRef,
  sessionPromiseRef,
  sess,          \* per startListening invocation: closure and resources
  reqs,          \* calls of generateContent made by translateText
  now,           \* the last value Date.now() returned
  apiKey,        \* process.env.API_KEY is set
  mounted,       \* the component is mounted
  startsLeft,    \* startListening invocations the run may still make
  msgsLeft,      \* server messages the run may still deliver
  obs            \* observations of past events, read only by the properties

vars == <<status, history, currentTurn, statusQ, histQ, turnQ, micStreamRef,
          audioContextRef, processorRef, sessionPromiseRef, sess, reqs, now,
          apiKey, mounted, startsLeft, msgsLeft, obs>>

\* ---- values

\* '[Translation failed]' (translateText's catch)
FAILED == <<"[Translation failed]">>

\* response.text of generateContent for the prompt built from text: the
\* service's answer is tagged with the text it was asked to translate
Translate(text) == <<"tr">> \o text

\* no-arg shapes of the queued updates
HistUpd(op, turn, id, text, tr, late) ==
  [op |-> op, turn |-> turn, id |-> id, text |-> text, tr |-> tr, late |-> late]

TurnUpd(op, text, val, exp, sid, late) ==
  [op |-> op, text |-> text, val |-> val, exp |-> exp, sid |-> sid, late |-> late]

\* prev => ({ id: prev?.id ?? Date.now(), original: (prev?.original || '') + text,
\*            translated: prev?.translated || '', isFinal: false })
FragmentUpdater(prev, text, t) ==
  Some([id |-> IF prev = NULL THEN t ELSE prev[1].id,
        original |-> (IF prev = NULL THEN <<>> ELSE prev[1].original) \o text,
        translated |-> IF prev = NULL THEN <<>> ELSE prev[1].translated,
        isFinal |-> FALSE])

\* prevTurn alone: the guard without its test of original
HasTurn(turn) == turn # NULL

\* prevTurn && prevTurn.original
HasText(turn) == turn # NULL /\ turn[1].original # <<>>

\* { ...turn }: the copy without isFinal: true
CopyTurn(turn) == turn[1]

\* { ...turn, isFinal: true }
Finalize(turn) == [turn[1] EXCEPT !.isFinal = TRUE]

\* one setHistory update applied to the previous history
ApplyHistUpd(h, u) ==
  CASE u.op = "reset" -> <<>>
    [] u.op = "append" -> Append(h, u.turn[1])
    [] u.op = "map" ->
         [k \in DOMAIN h |->
            IF h[k].id = u.id THEN [h[k] EXCEPT !.translated = u.tr] ELSE h[k]]

RECURSIVE ApplyHistQ(_, _)
ApplyHistQ(h, q) ==
  IF q = <<>> THEN h ELSE ApplyHistQ(ApplyHistUpd(h, Head(q)), Tail(q))

\* one setCurrentTurn update applied to acc.ct.  The turn-complete updater
\* has side effects: it calls setHistory (acc.apps) and translateText
\* (acc.calls); acc.log records, per turn-complete, the fragments received
\* for it and the text it finalized.
ApplyTurnUpd(acc, u, t) ==
  CASE u.op = "null" -> [acc EXCEPT !.ct = NULL]
    [] u.op = "val" -> [acc EXCEPT !.ct = u.val]
    [] u.op = "frag" -> [acc EXCEPT !.ct = FragmentUpdater(acc.ct, u.text, t)]
    [] u.op = "tc" ->
         IF HasText(acc.ct)
         THEN [ct |-> NULL,
               apps |-> Append(acc.apps, Finalize(acc.ct)),
               calls |-> Append(acc.calls,
                           [id |-> acc.ct[1].id, text |-> acc.ct[1].original,
                            sid |-> u.sid, state |-> "pending"]),
               log |-> Append(acc.log, [exp |-> u.exp, got |-> acc.ct[1].original])]
         ELSE [acc EXCEPT !.ct = NULL,
                          !.log = Append(acc.log, [exp |-> u.exp, got |-> <<>>])]

RECURSIVE ApplyTurnQ(_, _, _)
ApplyTurnQ(acc, q, t) ==
  IF q = <<>> THEN acc ELSE ApplyTurnQ(ApplyTurnUpd(acc, Head(q), t), Tail(q), t)

TurnAcc(ct) == [ct |-> ct, apps |-> <<>>, calls |-> <<>>, log |-> <<>>]

RECURSIVE AppendAll(_, _)
AppendAll(h, ts) ==
  IF ts = <<>> THEN h ELSE AppendAll(Append(h, Head(ts)), Tail(ts))

\* ---- the component's state as one value, so that a handler, the render
\* ---- it causes and the effect cleanup that render runs compose

Cur ==
  [status |-> status, history |-> history, currentTurn |-> currentTurn,
   statusQ |-> statusQ, histQ |-> histQ, turnQ |-> turnQ,
   micStreamRef |-> micStreamRef, audioContextRef |-> audioContextRef,
   processorRef |-> processorRef, sessionPromiseRef |-> sessionPromiseRef,
   sess |-> sess, reqs |-> reqs, mounted |-> mounted, obs |-> obs]

Install(S) ==
  /\ status' = S.status
  /\ history' = S.history
  /\ currentTurn' = S.currentTurn
  /\ statusQ' = S.statusQ
  /\ histQ' = S.histQ
  /\ turnQ' = S.turnQ
  /\ micStreamRef' = S.micStreamRef
  /\ audioContextRef' = S.audioContextRef
  /\ processorRef' = S.processorRef
  /\ sessionPromiseRef' = S.sessionPromiseRef
  /\ sess' = S.sess
  /\ reqs' = S.reqs
  /\ mounted' = S.mounted
  /\ obs' = S.obs

\* a startListening invocation that has not happened
NoSession ==
  [phase |-> "none", capStatus |-> "idle", capCT |-> NULL, closeReq |-> FALSE,
   mic |-> "none", ctx |-> "none", proc |-> "none"]

\* setState of an unmounted component is ignored
SetStatus(S, v) ==
  IF S.mounted THEN [S EXCEPT !.statusQ = Append(@, v)] ELSE S

SetHistory(S, u) ==
  IF S.mounted THEN [S EXCEPT !.histQ = Append(@, u)] ELSE S

SetCurrentTurn(S, u) ==
  IF S.mounted THEN [S EXCEPT !.turnQ = Append(@, u)] ELSE S

QueuesEmpty(S) == S.statusQ = <<>> /\ S.histQ = <<>> /\ S.turnQ = <<>>

\* stopListening as created by a render whose currentTurn was ct
stopListening(S, ct) ==
  LET released ==
        [i \in Sessions |->
           [S.sess[i] EXCEPT
              !.mic = IF i = S.micStreamRef THEN "stopped" ELSE @,
              !.proc = IF i = S.processorRef THEN "disconnected" ELSE @,
              !.ctx = IF i = S.audioContextRef THEN "closed" ELSE @,
              !.phase = IF i = S.sessionPromiseRef /\ @ = "open" THEN "closing" ELSE @,
              !.closeReq = IF i = S.sessionPromiseRef /\ S.sess[i].phase = "connecting"
                           THEN TRUE ELSE @]]
      S1 == [S EXCEPT !.sess = released,
                      !.micStreamRef = 0,
                      !.processorRef = 0,
                      !.audioContextRef = 0,
                      !.sessionPromiseRef = 0,
                      !.obs.stopped = [i \in Sessions |-> @[i] \/ S.sess[i].phase # "none"],
                      !.obs.recv = [i \in Sessions |-> <<>>]]
      S2 == SetStatus(S1, "idle")
      S3 == IF HasText(ct)
            THEN SetHistory(S2, HistUpd("append", Some(Finalize(ct)), 0, <<>>, <<>>, FALSE))
            ELSE S2
  IN SetCurrentTurn(S3, TurnUpd("null", <<>>, NULL, <<>>, 0, FALSE))

\* One render of App at clock t followed by its effects.  The hooks run in
\* declaration order: status, history, currentTurn; the setHistory calls made
\* by turn-complete updaters while currentTurn's queue is processed are
\* applied after it.  stopListening is re-created when currentTurn is a
\* different object, the cleanup effect re-runs when status or stopListening
\* changed, and its previous cleanup then runs with the previous render's
\* status and stopListening.
Render(S, t) ==
  LET newStatus == IF S.statusQ = <<>> THEN S.status ELSE S.statusQ[Len(S.statusQ)]
      acc == ApplyTurnQ(TurnAcc(S.currentTurn), S.turnQ, t)
      newHistory == AppendAll(ApplyHistQ(S.history, S.histQ), acc.apps)
      turnChanged == S.turnQ # <<>> /\ ~(S.currentTurn = NULL /\ acc.ct = NULL)
      depsChanged == newStatus # S.status \/ turnChanged
      S1 == [S EXCEPT !.status = newStatus,
                      !.history = newHistory,
                      !.currentTurn = acc.ct,
                      !.statusQ = <<>>,
                      !.histQ = <<>>,
                      !.turnQ = <<>>,
                      !.reqs = @ \o acc.calls,
                      !.obs.tcLog = acc.log]
  IN IF depsChanged /\ S.status \in {"listening", "connecting"}
     THEN stopListening(S1, S.currentTurn)
     ELSE S1

\* startListening up to its first await, as created by the render S shows
startListening(S, i, key) ==
  LET S1 == SetStatus(S, "connecting")
      S2 == SetCurrentTurn(S1, TurnUpd("null", <<>>, NULL, <<>>, 0, FALSE))
      S3 == SetHistory(S2, HistUpd("reset", NULL, 0, <<>>, <<>>, FALSE))
      S4 == [S3 EXCEPT !.obs.stopTurn = NULL, !.obs.errSeen = FALSE, !.obs.errTurn = NULL,
                       !.obs.recv = [j \in Sessions |-> <<>>]]
  IN IF key
     THEN [S4 EXCEPT !.sess[i] = [NoSession EXCEPT !.phase = "gum",
                                                   !.capStatus = S.status,
                                                   !.capCT = S.currentTurn]]
     ELSE SetStatus([S4 EXCEPT !.sess[i].phase = "failed"], "error")

\* Date.now() is read by the fragment updater when it creates a turn; the
\* values it may return next: the last value read, or a later one
ReadsClock(q) == \E k \in DOMAIN q : q[k].op = "frag"

DateNow(q) == IF ReadsClock(q) THEN {t \in {now, now + 1} : t <= MaxClock} ELSE {now}

\* ---- initial state: the first render of App

Init ==
  /\ status = "idle"
  /\ history = <<>>
  /\ currentTurn = NULL
  /\ statusQ = <<>>
  /\ histQ = <<>>
  /\ turnQ = <<>>
  /\ micStreamRef = 0
  /\ audioContextRef = 0
  /\ processorRef = 0
  /\ sessionPromiseRef = 0
  /\ sess = [i \in Sessions |-> NoSession]
  /\ reqs = <<>>
  /\ now = 1
  /\ apiKey \in BOOLEAN
  /\ mounted = TRUE
  /\ startsLeft = MaxSessions
  /\ msgsLeft = MaxMsgs
  /\ obs = [tcLog |-> <<>>, stopTurn |-> NULL, errSeen |-> FALSE, errTurn |-> NULL,
            recv |-> [i \in Sessions |-> <<>>],
            stopped |-> [i \in Sessions |-> FALSE]]

\* ---- actions

\* the session the next startListening invocation creates
NextSession ==
  CHOOSE i \in Sessions :
    /\ sess[i].phase = "none"
    /\ \A j \in Sessions : sess[j].phase = "none" => i <= j

\* the button's onClick, handleToggleRecording of the committed render, and
\* the render React performs before the click event ends.  The button is
\* disabled while status is 'connecting'.
ToggleStop ==
  /\ mounted
  /\ status = "listening"
  /\ \E t \in DateNow(turnQ) :
       /\ now' = t
       /\ Install(Render(stopListening([Cur EXCEPT !.obs.stopTurn =
                                           IF HasText(currentTurn) THEN currentTurn ELSE @,
                                              !.obs.errSeen = FALSE],
                                       currentTurn), t))
  /\ UNCHANGED <<apiKey, startsLeft, msgsLeft>>

ToggleStart ==
  /\ mounted
  /\ status \in {"idle", "error"}
  /\ startsLeft > 0
  /\ startsLeft' = startsLeft - 1
  /\ \E t \in DateNow(turnQ) :
       /\ now' = t
       /\ Install(Render(startListening(Cur, NextSession, apiKey), t))
  /\ UNCHANGED <<apiKey, msgsLeft>>

\* React renders the pending updates
RenderPending ==
  /\ mounted
  /\ ~QueuesEmpty(Cur)
  /\ \E t \in DateNow(turnQ) :
       /\ now' = t
       /\ Install(Render(Cur, t))
  /\ UNCHANGED <<apiKey, startsLeft, msgsLeft>>

\* the component is destroyed: the effect's cleanup runs, later setState
\* calls are ignored
Unmount ==
  /\ mounted
  /\ LET S == [Cur EXCEPT !.mounted = FALSE, !.statusQ = <<>>, !.histQ = <<>>, !.turnQ = <<>>]
     IN Install(IF status \in {"listening", "connecting"}
                THEN stopListening(S, currentTurn)
                ELSE S)
  /\ UNCHANGED <<now, apiKey, startsLeft, msgsLeft>>

\* getUserMedia resolves; then new AudioContext (which may throw) and
\* live.connect
GetUserMediaResolves(i) ==
  /\ sess[i].phase = "gum"
  /\ \E ctxOk \in BOOLEAN :
       LET S1 == [Cur EXCEPT !.micStreamRef = i, !.sess[i].mic = "live"]
       IN Install(IF ctxOk
                  THEN [S1 EXCEPT !.audioContextRef = i,
                                  !.sess[i].ctx = "open",
                                  !.sessionPromiseRef = i,
                                  !.sess[i].phase = "connecting"]
                  ELSE SetStatus([S1 EXCEPT !.sess[i].phase = "failed"], "error"))
  /\ UNCHANGED <<now, apiKey, startsLeft, msgsLeft>>

\* getUserMedia rejects: the catch block
GetUserMediaRejects(i) ==
  /\ sess[i].phase = "gum"
  /\ Install(SetStatus([Cur EXCEPT !.sess[i].phase = "failed"], "error"))
  /\ UNCHANGED <<now, apiKey, startsLeft, msgsLeft>>

\* callbacks.onopen of session i.  It dereferences the refs; when stop has
\* cleared them it throws before setStatus.  The close chained on the
\* session promise by an earlier stop runs once onopen has returned.
onopen(i) ==
  /\ sess[i].phase = "connecting"
  /\ Install(IF audioContextRef = 0 \/ micStreamRef = 0
             THEN [Cur EXCEPT !.sess[i].phase = "open"]
             ELSE SetStatus([Cur EXCEPT !.processorRef = i,
                                        !.sess[i].proc = "connected",
                                        !.sess[i].closeReq = FALSE,
                                        !.sess[i].phase =
                                           IF sess[i].closeReq THEN "closing" ELSE "open"],
                            "listening"))
  /\ UNCHANGED <<now, apiKey, startsLeft, msgsLeft>>

\* session.close() chained by stopListening on a session promise that had
\* not resolved yet
ChainedClose(i) ==
  /\ sess[i].phase = "open"
  /\ sess[i].closeReq
  /\ Install([Cur EXCEPT !.sess[i].phase = "closing", !.sess[i].closeReq = FALSE])
  /\ UNCHANGED <<now, apiKey, startsLeft, msgsLeft>>

\* callbacks.onmessage of session i for a message carrying an
\* inputTranscription with this text (hasFrag), turnComplete (hasTC) or both.
\* React may run the first updater at once when no update is pending
\* (eager), else it runs at the next render.
onmessage(i) ==
  /\ mounted
  /\ sess[i].phase \in {"open", "closing"}
  /\ msgsLeft > 0
  /\ msgsLeft' = msgsLeft - 1
  /\ \E hasFrag, hasTC \in BOOLEAN :
     \E text \in (IF hasFrag THEN FragTexts ELSE {<<>>}) :
     \E eager \in (IF QueuesEmpty(Cur) THEN BOOLEAN ELSE {FALSE}) :
     \E t \in (IF eager /\ hasFrag /\ currentTurn = NULL
               THEN {c \in {now, now + 1} : c <= MaxClock} ELSE {now}) :
       /\ hasFrag \/ hasTC
       /\ now' = t
       /\ LET late == obs.stopped[i]
              exp == obs.recv[i] \o text
              fragU == IF eager
                       THEN TurnUpd("val", <<>>, FragmentUpdater(currentTurn, text, t),
                                    <<>>, i, late)
                       ELSE TurnUpd("frag", text, NULL, <<>>, i, late)
              tcU == TurnUpd("tc", <<>>, NULL, exp, i, late)
              S0 == [Cur EXCEPT !.obs.recv[i] = IF hasTC THEN <<>> ELSE exp]
              S1 == IF hasFrag THEN SetCurrentTurn(S0, fragU) ELSE S0
              acc == ApplyTurnUpd(TurnAcc(currentTurn), tcU, t)
              E1 == IF acc.apps # <<>>
                    THEN SetHistory(S0, HistUpd("append", Some(acc.apps[1]), 0, <<>>, <<>>, late))
                    ELSE S0
              E2 == [E1 EXCEPT !.reqs = @ \o acc.calls, !.obs.tcLog = acc.log]
              E3 == IF currentTurn = NULL
                    THEN E2
                    ELSE SetCurrentTurn(E2, TurnUpd("val", <<>>, NULL, <<>>, i, late))
          IN Install(IF ~hasTC THEN S1
                     ELSE IF hasFrag \/ ~eager THEN SetCurrentTurn(S1, tcU)
                     ELSE E3)
  /\ UNCHANGED <<apiKey, startsLeft>>

\* callbacks.onerror of session i; stopListening is the one startListening
\* closed over
onerror(i) ==
  /\ sess[i].phase = "open"
  /\ LET inProgress == ApplyTurnQ(TurnAcc(currentTurn), turnQ, now).ct
         S0 == [Cur EXCEPT !.obs.errSeen = @ \/ (mounted /\ ~obs.stopped[i]),
                           !.obs.errTurn = IF mounted /\ ~obs.stopped[i] /\ HasText(inProgress)
                                           THEN inProgress ELSE @]
         S1 == stopListening(SetStatus(S0, "error"), sess[i].capCT)
     IN Install([S1 EXCEPT !.sess[i].phase = "closing"])
  /\ UNCHANGED <<now, apiKey, startsLeft, msgsLeft>>

\* callbacks.onclose of session i; status is the one startListening closed over
onclose(i) ==
  /\ sess[i].phase \in {"open", "closing"}
  /\ LET S1 == [Cur EXCEPT !.sess[i].phase = "closed"]
     IN Install(IF sess[i].capStatus # "idle" /\ sess[i].capStatus # "error"
                THEN SetStatus(S1, "idle")
                ELSE S1)
  /\ UNCHANGED <<now, apiKey, startsLeft, msgsLeft>>

\* translateText's generateContent call k returns (ok) or throws, and the
\* .then of the turn-complete updater reconciles the result by id
TranslationSettles(k) ==
  /\ k \in DOMAIN reqs
  /\ reqs[k].state = "pending"
  /\ \E ok \in BOOLEAN :
       Install(SetHistory([Cur EXCEPT !.reqs[k].state = "done"],
                          HistUpd("map", NULL, reqs[k].id, reqs[k].text,
                                  IF ok THEN Translate(reqs[k].text) ELSE FAILED,
                                  obs.stopped[reqs[k].sid])))
  /\ UNCHANGED <<now, apiKey, startsLeft, msgsLeft>>

Next ==
  \/ ToggleStart
  \/ ToggleStop
  \/ RenderPending
  \/ Unmount
  \/ \E i \in Sessions : GetUserMediaResolves(i)
  \/ \E i \in Sessions : GetUserMediaRejects(i)
  \/ \E i \in Sessions : onopen(i)
  \/ \E i \in Sessions : ChainedClose(i)
  \/ \E i \in Sessions : onmessage(i)
  \/ \E i \in Sessions : onerror(i)
  \/ \E i \in Sessions : onclose(i)
  \/ \E k \in Requests : TranslationSettles(k)

Spec == Init /\ [][Next]_vars

\* the same program with one more session and one message less
InitSessions ==
  /\ status = "idle"
  /\ history = <<>>
  /\ currentTurn = NULL
  /\ statusQ = <<>>
  /\ histQ = <<>>
  /\ turnQ = <<>>
  /\ micStreamRef = 0
  /\ audioContextRef = 0
  /\ processorRef = 0
  /\ sessionPromiseRef = 0
  /\ sess = [i \in Sessions |-> NoSession]
  /\ reqs = <<>>
  /\ now = 1
  /\ apiKey = TRUE
  /\ mounted = TRUE
  /\ startsLeft = MaxSessions + 1
  /\ msgsLeft = MaxMsgs - 1
  /\ obs = [tcLog |-> <<>>, stopTurn |-> NULL, errSeen |-> FALSE, errTurn |-> NULL,
            recv |-> [i \in Sessions |-> <<>>],
            stopped |-> [i \in Sessions |-> FALSE]]

SpecSessions == InitSessions /\ [][Next]_vars

\* ---- properties

\* every pending update has been rendered
Settled == mounted /\ QueuesEmpty(Cur)

\* session i holds a capture resource: a microphone stream whose tracks run,
\* an open audio context, a connected processor, or a connection that is
\* open or being opened with no close chained on it
Holds(i) ==
  \/ sess[i].mic = "live"
  \/ sess[i].ctx = "open"
  \/ sess[i].proc = "connected"
  \/ sess[i].phase = "open"
  \/ sess[i].phase = "connecting" /\ ~sess[i].closeReq

\* session i holds resources or is still acquiring them
Live(i) == sess[i].phase = "gum" \/ Holds(i)

\* C1: the turn a turn-complete event finalizes has as original the
\* concatenation, in arrival order, of the fragments its session received
\* since the previous turn boundary (that session's previous turn-complete
\* event, or a stop or start that cleared the current turn)
C1_FragmentsConcatenate ==
  \A k \in DOMAIN obs.tcLog : obs.tcLog[k].got = obs.tcLog[k].exp

\* the pending updates all come from callbacks of sessions that stop had
\* already ended when they fired
LateOnly ==
  /\ mounted
  /\ status = "idle"
  /\ statusQ = <<>>
  /\ histQ # <<>> \/ turnQ # <<>>
  /\ \A k \in DOMAIN histQ : histQ[k].late
  /\ \A k \in DOMAIN turnQ : turnQ[k].late

\* C2: once stop has run and status is idle, a stream message or translation
\* result of the stopped session changes neither history nor currentTurn
C2_NoMutationAfterStop ==
  [][(LateOnly /\ startsLeft' = startsLeft) => (history' = history /\ currentTurn' = currentTurn)]_vars

\* C3: after a stop pressed while currentTurn had text, history holds that
\* turn exactly once, final, and currentTurn is null
C3_StopFinalizesOnce ==
  (Settled /\ obs.stopTurn # NULL) =>
     /\ currentTurn = NULL
     /\ Cardinality({k \in DOMAIN history :
                       /\ history[k].id = obs.stopTurn[1].id
                       /\ history[k].original = obs.stopTurn[1].original
                       /\ history[k].isFinal}) = 1

\* C4: at most one session holds or is acquiring capture resources
C4_SingleSession == Cardinality({i \in Sessions : Live(i)}) <= 1

\* C5: after onerror of a running session, status is error until the next
\* start
C5_ErrorEndsInError == (Settled /\ obs.errSeen) => status = "error"

\* C6: the turn in progress when onerror fired is in history, final, with
\* the text received so far
C6_ErrorFinalizesTurn ==
  (Settled /\ obs.errTurn # NULL) =>
     \E k \in DOMAIN history :
        history[k].original = obs.errTurn[1].original /\ history[k].isFinal

\* the pending updates are translation results only
OnlyTranslations ==
  /\ statusQ = <<>>
  /\ turnQ = <<>>
  /\ histQ # <<>>
  /\ \A k \in DOMAIN histQ : histQ[k].op = "map"

\* C7: rendering translation results keeps history's length and order and
\* changes nothing but the translated field of the entries of the turns
\* the results were requested for
C7_TranslationTouchesOwnEntry ==
  [][(OnlyTranslations /\ RenderPending) =>
       /\ currentTurn' = currentTurn
       /\ Len(history') = Len(history)
       /\ \A k \in DOMAIN history :
            /\ history'[k] = [history[k] EXCEPT !.translated = history'[k].translated]
            /\ history'[k] # history[k] =>
                 \E m \in DOMAIN histQ : /\ histQ[m].id = history[k].id
                                         /\ histQ[m].text = history[k].original]_vars

\* C8: no two history entries share an id and currentTurn's id is not in
\* history
C8_UniqueIds ==
  /\ \A j, k \in DOMAIN history : j # k => history[j].id # history[k].id
  /\ currentTurn # NULL => \A k \in DOMAIN history : history[k].id # currentTurn[1].id

\* C9: translateText was called exactly once for every history entry
C9_OneTranslationPerTurn ==
  \A k \in DOMAIN history :
     Cardinality({r \in DOMAIN reqs : /\ reqs[r].id = history[k].id
                                      /\ reqs[r].text = history[k].original}) = 1

\* C10: when status is idle and no update is pending, the four refs are null
\* and no session holds a microphone stream, audio context, processor or
\* connection
C10_IdleHoldsNothing ==
  (status = "idle" /\ Settled) =>
     /\ micStreamRef = 0
     /\ audioContextRef = 0
     /\ processorRef = 0
     /\ sessionPromiseRef = 0
     /\ \A i \in Sessions : ~Holds(i)

\* C11: whenever status is error, the four refs are null and no session
\* holds a microphone stream, audio context, processor or connection
C11_ErrorHoldsNothing ==
  status = "error" =>
     /\ micStreamRef = 0
     /\ audioContextRef = 0
     /\ processorRef = 0
     /\ sessionPromiseRef = 0
     /\ \A i \in Sessions : ~Holds(i)

\* the edges of the status machine: start, connection open, failure, stop
StatusEdges ==
  {<<"idle", "connecting">>, <<"error", "connecting">>,
   <<"connecting", "listening">>, <<"connecting", "error">>,
   <<"listening", "error">>, <<"connecting", "idle">>, <<"listening", "idle">>}

\* the values status takes when the pending setStatus calls are rendered
StatusChain == <<status>> \o statusQ

\* C12: a render of setStatus calls made by callbacks (no click is part of
\* the step) moves status along the edges only: never idle -> listening,
\* idle -> error or error -> idle
C12_StatusEdges ==
  [][RenderPending =>
       \A k \in 1..(Len(StatusChain) - 1) :
          \/ StatusChain[k + 1] = StatusChain[k]
          \/ <<StatusChain[k], StatusChain[k + 1]>> \in StatusEdges]_vars

\* the pending updates are results of translation calls that threw
OnlyFailedTranslations ==
  /\ OnlyTranslations
  /\ \A k \in DOMAIN histQ : histQ[k].tr = FAILED

\* history entry k is the turn pending result m was requested for
OwnEntry(k, m) == histQ[m].id = history[k].id /\ histQ[m].text = history[k].original

\* C13: rendering the results of failed translation calls sets translated to
\* '[Translation failed]' in the entries of their turns and changes neither
\* status, currentTurn nor any other history entry
C13_TranslationFailureLocal ==
  [][(OnlyFailedTranslations /\ RenderPending) =>
       /\ status' = status
       /\ currentTurn' = currentTurn
       /\ Len(history') = Len(history)
       /\ \A k \in DOMAIN history :
            IF \E m \in DOMAIN histQ : OwnEntry(k, m)
            THEN history'[k] = [history[k] EXCEPT !.translated = FAILED]
            ELSE history'[k] = history[k]]_vars

\* what a render shows after the handler's updates S holds: status, history,
\* currentTurn and the four refs
Shown(S) ==
  LET R == Render(S, now)
  IN <<R.status, R.history, R.currentTurn,
       R.micStreamRef, R.audioContextRef, R.processorRef, R.sessionPromiseRef>>

\* C14: in every state, calling the rendered stopListening twice in
\* succession shows the same status, history, currentTurn and refs as
\* calling it once
C14_StopIdempotent ==
  mounted =>
     Shown(stopListening(stopListening(Cur, currentTurn), currentTurn))
       = Shown(stopListening(Cur, currentTurn))

\* entry e with its translated field blanked
Untranslated(e) == [e EXCEPT !.translated = <<>>]

\* history h is a prefix of g as far as id, original and isFinal go
PrefixOf(h, g) ==
  /\ Len(h) <= Len(g)
  /\ \A k \in DOMAIN h : Untranslated(g[k]) = Untranslated(h[k])

\* C15: a step that is no start leaves history a prefix of the new history,
\* up to the translated fields; and the entry a click on stop appends comes
\* last, after the entries of the turn-complete events received before the
\* click
C15_AppendOnlyInEventOrder ==
  [][/\ startsLeft' = startsLeft => PrefixOf(history, history')
     /\ (ToggleStop /\ HasText(currentTurn)) =>
           Untranslated(history'[Len(history')]) = Untranslated(Finalize(currentTurn))]_vars

\* the turn-complete events the last render processed all found no current
\* turn, or one whose original is empty
EmptyCompletes(log) == log # <<>> /\ \A k \in DOMAIN log : log[k].got = <<>>

\* C16: a render whose turn-complete events find no turn or an empty one
\* adds no history entry and no translation request, raises no error, and
\* leaves currentTurn null when the turn-complete is its last update
C16_EmptyTurnCompleteNoOp ==
  [][(RenderPending /\ EmptyCompletes(obs'.tcLog)) =>
       /\ history' = ApplyHistQ(history, histQ)
       /\ reqs' = reqs
       /\ statusQ = <<>> => (status' = status /\ \A k \in DOMAIN statusQ' : statusQ'[k] # "error")
       /\ turnQ[Len(turnQ)].op = "tc" => currentTurn' = NULL]_vars

\* a listening session has rendered a turn-complete that found no turn
C16_Witness ==
  /\ EmptyCompletes(obs.tcLog)
  /\ status = "listening"
  /\ history = <<>>
  /\ reqs = <<>>
  /\ currentTurn = NULL

\* C17: every history entry is final with a non-empty original, and
\* currentTurn, when present, is not final
C17_FinalInHistoryOnly ==
  /\ \A k \in DOMAIN history : history[k].isFinal /\ history[k].original # <<>>
  /\ currentTurn # NULL => ~currentTurn[1].isFinal

\* history holds a finalized turn while a later turn is in progress
C17_Witness ==
  /\ history # <<>>
  /\ currentTurn # NULL
  /\ currentTurn[1].original # <<>>

\* session i has been started and no stop has ended it
Current(i) == sess[i].phase \in {"gum", "connecting", "open"} /\ ~obs.stopped[i]

\* a newer session is running and the pending updates all come from
\* callbacks of sessions that stop had ended before they fired
LateInNewSession ==
  /\ mounted
  /\ status \in {"connecting", "listening"}
  /\ \E i \in Sessions : Current(i)
  /\ statusQ = <<>>
  /\ histQ # <<>> \/ turnQ # <<>>
  /\ \A k \in DOMAIN histQ : histQ[k].late
  /\ \A k \in DOMAIN turnQ : turnQ[k].late

\* C18: rendering the stream messages and translation results of superseded
\* sessions changes neither the new session's currentTurn nor its history
C18_LateCallbacksHarmless ==
  [][(LateInNewSession /\ RenderPending) =>
       (history' = history /\ currentTurn' = currentTurn)]_vars

\* the pending updates come from onopen and onmessage only: every pending
\* setStatus is onopen's setStatus('listening')
OpenOrMessageOnly ==
  /\ \A k \in DOMAIN statusQ : statusQ[k] = "listening"
  /\ \A k \in DOMAIN histQ : histQ[k].op = "map"
  /\ \A k \in DOMAIN turnQ : turnQ[k].op \in {"frag", "tc", "val"}

\* C19: a render of updates made by onopen and onmessage runs no teardown:
\* it leaves the refs and every session's resources as they are and queues
\* no setStatus, so the session stays listening
C19_RenderTearsNothingDown ==
  [][(OpenOrMessageOnly /\ RenderPending) =>
       /\ micStreamRef' = micStreamRef
       /\ audioContextRef' = audioContextRef
       /\ processorRef' = processorRef
       /\ sessionPromiseRef' = sessionPromiseRef
       /\ sess' = sess
       /\ statusQ' = <<>>]_vars

\* the status current now: the value the last setStatus call gave it
CurrentStatus == IF statusQ = <<>> THEN status ELSE statusQ[Len(statusQ)]

\* C20: when onclose of session i fires while the current status is
\* connecting or listening and no stop has ended the session, it sets status
\* idle; when the current status is idle or error it sets nothing
C20_CloseUsesCurrentStatus ==
  [][\A i \in Sessions :
       (mounted /\ sess[i].phase \in {"open", "closing"} /\ sess'[i].phase = "closed") =>
          /\ (CurrentStatus \in {"connecting", "listening"} /\ ~obs.stopped[i]) =>
                statusQ' = Append(statusQ, "idle")
          /\ CurrentStatus \in {"idle", "error"} => statusQ' = statusQ]_vars

====
